---- MODULE Spec2Model ----
(***************************************************************************)
(* Model of pages/0_Animation_Demo.py: the KPI pipeline run by main()      *)
(* (load_data_from_url, calculate_kpis, transform_data, st.write).         *)
(*                                                                         *)
(* A table (DataFrame) is a record [columns, rows].  A row carries its     *)
(* seven metadata fields, its five milestone date cells and its four KPI   *)
(* cells.  A date cell is a record [kind, f1, f2, f3]:                     *)
(*   kind "slash"  the text  f1/f2/f3          (e.g. "10/04/2020")         *)
(*   kind "iso"    the text  f1-f2-f3          (e.g. "2020-04-10")         *)
(*   kind "text"   a text that is no date      (e.g. "n/a")                *)
(*   kind "empty"  an empty CSV cell (NaN)                                 *)
(*   kind "date"   a Timestamp, year f1, month f2, day f3                  *)
(*   kind "NaT"    the missing Timestamp                                   *)
(*   kind "nocolumn" placeholder in a row of a table without that column   *)
(* An optional number (a KPI or a year that may be NaN/None) is <<>> when  *)
(* missing and <<v>> when present.                                         *)
(***************************************************************************)
EXTENDS Integers, Sequences, FiniteSets, TLC

\* Largest number of rows of an input table drawn from SmallRows.
MaxRows == 2
\* Largest number of times the pipeline is run on one input.
MaxRuns == 2

None == <<>>
Some(v) == <<v>>
IsSome(o) == Len(o) = 1
Val(o) == o[1]

Abs(n) == IF n < 0 THEN -n ELSE n
Sign(n) == IF n < 0 THEN -1 ELSE 1

-----------------------------------------------------------------------------
(* Column names *)

date_columns ==
    << "Fecha CartaConsulta", "FechaAprobacion", "FechaVigencia",
       "FechaElegibilidad", "FechadePrimerDesembolso" >>

DateCols == {date_columns[i] : i \in 1..Len(date_columns)}

id_vars ==
    {"IDEtapa", "NoEtapa", "Pais", "EstadoColumnaGOP", "Alias", "Sector", "SubSector"}

value_vars ==
    << "KPI Aprobacion", "KPI Vigencia", "KPI Elegibilidad", "KPI Primer Desembolso" >>

KpiCols == {value_vars[i] : i \in 1..Len(value_vars)}

\* The later and the earlier milestone column of each KPI column.
LaterCol(k) ==
    CASE k = "KPI Aprobacion" -> "FechaAprobacion"
      [] k = "KPI Vigencia" -> "FechaVigencia"
      [] k = "KPI Elegibilidad" -> "FechaElegibilidad"
      [] k = "KPI Primer Desembolso" -> "FechadePrimerDesembolso"

EarlierCol(k) ==
    CASE k = "KPI Aprobacion" -> "Fecha CartaConsulta"
      [] k = "KPI Vigencia" -> "FechaAprobacion"
      [] k = "KPI Elegibilidad" -> "FechaVigencia"
      [] k = "KPI Primer Desembolso" -> "FechaElegibilidad"

\* year_mapping[x.replace('KPI ', '')]
year_mapping(k) ==
    CASE k = "KPI Aprobacion" -> "FechaAprobacion"
      [] k = "KPI Vigencia" -> "FechaVigencia"
      [] k = "KPI Elegibilidad" -> "FechaElegibilidad"
      [] k = "KPI Primer Desembolso" -> "FechadePrimerDesembolso"

-----------------------------------------------------------------------------
(* Calendar *)

IsLeap(y) == (y % 4 = 0 /\ y % 100 # 0) \/ y % 400 = 0

DaysInMonth(y, m) ==
    IF m = 2 THEN (IF IsLeap(y) THEN 29 ELSE 28)
    ELSE IF m \in {4, 6, 9, 11} THEN 30 ELSE 31

ValidDate(y, m, d) ==
    /\ y >= 1 /\ m \in 1..12
    /\ d >= 1 /\ d <= DaysInMonth(y, m)

RECURSIVE DaysBeforeMonth(_, _)
DaysBeforeMonth(y, m) ==
    IF m = 1 THEN 0 ELSE DaysBeforeMonth(y, m - 1) + DaysInMonth(y, m - 1)

\* Proleptic Gregorian ordinal of a date (day 1 is 0001-01-01).
Ordinal(y, m, d) ==
    365 * (y - 1) + ((y - 1) \div 4) - ((y - 1) \div 100) + ((y - 1) \div 400)
      + DaysBeforeMonth(y, m) + d

Before(y1, m1, d1, y2, m2, d2) ==
    \/ y1 < y2
    \/ y1 = y2 /\ m1 < m2
    \/ y1 = y2 /\ m1 = m2 /\ d1 < d2

-----------------------------------------------------------------------------
(* Cells *)

Cell(k, a, b, c) == [kind |-> k, f1 |-> a, f2 |-> b, f3 |-> c]
Slash(a, b, c) == Cell("slash", a, b, c)
Iso(a, b, c) == Cell("iso", a, b, c)
Text == Cell("text", 0, 0, 0)
Empty == Cell("empty", 0, 0, 0)
NoCell == Cell("nocolumn", 0, 0, 0)
Timestamp(y, m, d) == Cell("date", y, m, d)
NaT == Cell("NaT", 0, 0, 0)

\* pd.notna: false for NaN, None and NaT, true for any other value.
notna(c) == c.kind \notin {"empty", "NaT", "nocolumn"}

IsTimestamp(c) == c.kind = "date"

TsBefore(a, b) == Before(a.f1, a.f2, a.f3, b.f1, b.f2, b.f3)

TsOrdinal(c) == Ordinal(c.f1, c.f2, c.f3)

\* .dt.year of one cell of a datetime column: NaN for NaT.
dt_year(c) == IF IsTimestamp(c) THEN Some(c.f1) ELSE None

-----------------------------------------------------------------------------
(* Date parsing *)

\* A faulty fixed-layout parse: a value that is already a Timestamp is treated
\* like a text that does not match the layout.
MutTypedNotReparsed(c) ==
    IF c.kind = "slash" /\ ValidDate(c.f3, c.f2, c.f1)
    THEN Timestamp(c.f3, c.f2, c.f1)
    ELSE NaT

\* One element of pd.to_datetime(col, format='%d/%m/%Y', errors='coerce'):
\* a text day/month/year that names a calendar date parses, every other text
\* and NaN give NaT, a value that is already a Timestamp (or NaT) is kept.
to_datetime_format(c) ==
    CASE c.kind = "date" -> c
      [] c.kind = "slash" /\ ValidDate(c.f3, c.f2, c.f1) -> Timestamp(c.f3, c.f2, c.f1)
      [] OTHER -> NaT

\* One element of pd.to_datetime(col, errors='coerce'), the lenient parse:
\* a/b/c is read month first, and day first when a is no month; y-m-d is read
\* as ISO; a Timestamp (or NaT) is kept; anything else gives NaT.
to_datetime(c) ==
    CASE c.kind = "date" -> c
      [] c.kind = "slash" /\ ValidDate(c.f3, c.f1, c.f2) -> Timestamp(c.f3, c.f1, c.f2)
      [] c.kind = "slash" /\ ~ValidDate(c.f3, c.f1, c.f2) /\ ValidDate(c.f3, c.f2, c.f1)
           -> Timestamp(c.f3, c.f2, c.f1)
      [] c.kind = "iso" /\ ValidDate(c.f1, c.f2, c.f3) -> Timestamp(c.f1, c.f2, c.f3)
      [] OTHER -> NaT

-----------------------------------------------------------------------------
(* Month differences *)

\* Python's round(days / 30): to the nearest integer, a tie to the even one.
RoundDiv30(days) ==
    LET q == days \div 30
        r == days % 30
    IN  IF r < 15 THEN q
        ELSE IF r > 15 THEN q + 1
        ELSE IF q % 2 = 0 THEN q ELSE q + 1

\* get_approx_months_diff(later_date, earlier_date) of calculate_kpis.
get_approx_months_diff(later, earlier) ==
    IF notna(later) /\ notna(earlier)
    THEN Some(RoundDiv30(TsOrdinal(later) - TsOrdinal(earlier)))
    ELSE None

\* dt + relativedelta(months=n) with n the total of years and months: the month
\* moves by n and the day is cut to the length of the month reached.
AddMonths(dt, n) ==
    LET t == dt.f1 * 12 + (dt.f2 - 1) + n
        y == t \div 12
        m == (t % 12) + 1
        d == IF dt.f3 > DaysInMonth(y, m) THEN DaysInMonth(y, m) ELSE dt.f3
    IN  Timestamp(y, m, d)

\* The loop of relativedelta.__init__(dt1, dt2): the month count starts at the
\* year/month difference and moves towards zero while dt2 + months overshoots dt1.
RECURSIVE AdjustMonths(_, _, _)
AdjustMonths(dt1, dt2, months) ==
    LET dtm == AddMonths(dt2, months)
    IN  IF TsBefore(dt1, dt2)
        THEN IF TsBefore(dtm, dt1) THEN AdjustMonths(dt1, dt2, months + 1) ELSE months
        ELSE IF TsBefore(dt1, dtm) THEN AdjustMonths(dt1, dt2, months - 1) ELSE months

\* Total signed months of relativedelta(dt1, dt2): 12 * years + months.
TotalMonths(dt1, dt2) ==
    AdjustMonths(dt1, dt2, (dt1.f1 - dt2.f1) * 12 + (dt1.f2 - dt2.f2))

\* relativedelta(dt1, dt2).months: _set_months keeps the remainder of the
\* total by 12 in .months, with the total's sign, and puts the rest in .years.
relativedelta_months(dt1, dt2) ==
    LET t == TotalMonths(dt1, dt2)
    IN  IF Abs(t) > 11 THEN Sign(t) * (Abs(t) % 12) ELSE t

\* A faulty KPI: a missing endpoint counts as a duration of zero.
MutAbsentAsZero(later, earlier) ==
    IF notna(later) /\ notna(earlier)
    THEN Some(relativedelta_months(later, earlier))
    ELSE Some(0)

\* The lambda of transform_data's four KPI columns on one row's pair of cells:
\* relativedelta(later, earlier).months if both are present, else None.
kpi_months(later, earlier) ==
    IF notna(later) /\ notna(earlier)
    THEN Some(relativedelta_months(later, earlier))
    ELSE None

-----------------------------------------------------------------------------
(* Tables *)

MetaOf(row) == [f \in id_vars |-> row[f]]

NoKpi == [k \in KpiCols |-> None]

\* A faulty column lookup: a missing column is not noticed.
MutAnyColumn(df, col) == TRUE

\* data[col] raises KeyError when the table has no column col.
has_column(df, col) == col \in df.columns

\* The month difference of calculate_kpis ("approx") or of transform_data
\* ("relativedelta") on one row's pair of cells.
MonthsDiff(fn, later, earlier) ==
    IF fn = "approx" THEN get_approx_months_diff(later, earlier)
    ELSE kpi_months(later, earlier)

\* data[k] = data.apply(lambda x: fn(x[LaterCol(k)], x[EarlierCol(k)]), axis=1)
\* for the four KPI columns.
SetKpiColumns(df, fn) ==
    [columns |-> df.columns \cup KpiCols,
     rows |-> [i \in 1..Len(df.rows) |->
                 [df.rows[i] EXCEPT !.kpi =
                     [k \in KpiCols |->
                        MonthsDiff(fn, df.rows[i].dates[LaterCol(k)],
                                   df.rows[i].dates[EarlierCol(k)])]]]]

\* pd.to_datetime on one element, with format='%d/%m/%Y' or without a format.
Parse(format, c) ==
    IF format = "%d/%m/%Y" THEN to_datetime_format(c) ELSE to_datetime(c)

\* The loop "for col in date_columns: data[col] = pd.to_datetime(data[col], ...)":
\* it stops with KeyError at the first column the table lacks, the columns
\* before it already converted in place.
ConvertDates(df, format) ==
    LET lacks == {i \in 1..Len(date_columns) : ~has_column(df, date_columns[i])}
        stop == IF lacks = {} THEN Len(date_columns) + 1
                ELSE CHOOSE i \in lacks : \A j \in lacks : i <= j
        done == {date_columns[i] : i \in 1..(stop - 1)}
    IN  [raised |-> lacks # {},
         df |-> [columns |-> df.columns \cup done,
                 rows |-> [i \in 1..Len(df.rows) |->
                            [df.rows[i] EXCEPT !.dates =
                               [c \in DateCols |-> IF c \in done THEN Parse(format, @[c]) ELSE @[c]]]]]]

\* later - earlier, and relativedelta(later, earlier), raise TypeError when both
\* values pass pd.notna and one of them is no Timestamp (a text left unparsed).
TypeErrorIn(df) ==
    \E i \in 1..Len(df.rows) : \E k \in KpiCols :
        LET later == df.rows[i].dates[LaterCol(k)]
            earlier == df.rows[i].dates[EarlierCol(k)]
        IN  /\ notna(later) /\ notna(earlier)
            /\ ~(IsTimestamp(later) /\ IsTimestamp(earlier))

\* calculate_kpis(data): the table is changed in place and returned.
calculate_kpis(df) ==
    LET conv == ConvertDates(df, "%d/%m/%Y")
    IN  IF conv.raised THEN conv
        ELSE IF TypeErrorIn(conv.df) THEN [raised |-> TRUE, df |-> conv.df]
        ELSE [raised |-> FALSE, df |-> SetKpiColumns(conv.df, "approx")]

\* data.drop_duplicates(): a new table with the first copy of every row, in order.
RECURSIVE DropFrom(_, _)
DropFrom(rows, i) ==
    IF i > Len(rows) THEN << >>
    ELSE IF \E j \in 1..(i - 1) : rows[j] = rows[i]
         THEN DropFrom(rows, i + 1)
         ELSE << rows[i] >> \o DropFrom(rows, i + 1)

drop_duplicates(df) == [columns |-> df.columns, rows |-> DropFrom(df.rows, 1)]

\* melted_data['Año']: for every melted row the year of the mapped date column
\* in the FIRST row of the deduplicated table (.dt.year.iloc[0]).
year_of(wide, k) == dt_year(wide.rows[1].dates[year_mapping(k)])

\* A faulty melt: every melted row carries the id_vars of the first row.
MutMetaOfFirstRow(wide, r) == MetaOf(wide.rows[1])

\* The metadata a melted row carries: the id_vars of its own wide row.
melt_meta(wide, r) == MetaOf(wide.rows[r])

\* pd.melt(...) followed by the 'Año' column: one record per KPI column and wide
\* row, KPI column after KPI column, indexed 0 .. 4n-1.
melt(wide) ==
    LET n == Len(wide.rows)
    IN  [p \in 1..(Len(value_vars) * n) |->
           LET k == value_vars[((p - 1) \div n) + 1]
               r == ((p - 1) % n) + 1
               m == melt_meta(wide, r)
           IN  [idx |-> p - 1,
                IDEtapa |-> m.IDEtapa,
                Estaciones |-> k,
                KPI |-> wide.rows[r].kpi[k],
                Anio |-> year_of(wide, k),
                NoEtapa |-> m.NoEtapa,
                Pais |-> m.Pais,
                EstadoColumnaGOP |-> m.EstadoColumnaGOP,
                Alias |-> m.Alias,
                Sector |-> m.Sector,
                SubSector |-> m.SubSector]]

\* A faulty filter: only the missing values are dropped.
MutKeepNegative(o) == IsSome(o.KPI)

\* melted_data['KPI'].notna() & (melted_data['KPI'] >= 0) on one melted row.
keep_row(o) == IsSome(o.KPI) /\ Val(o.KPI) >= 0

\* melted_data[mask]: the rows that pass, in order, with their index.
filter_rows(melted) == SelectSeq(melted, keep_row)

\* transform_data(data): the deduplicated copy (wide) and the table returned.
transform_data(df) ==
    LET conv == ConvertDates(drop_duplicates(df), "infer")
    IN  IF conv.raised \/ TypeErrorIn(conv.df)
        THEN [raised |-> TRUE, wide |-> conv.df, out |-> << >>]
        ELSE LET wide == SetKpiColumns(conv.df, "relativedelta")
             IN  [raised |-> FALSE, wide |-> wide, out |-> filter_rows(melt(wide))]

-----------------------------------------------------------------------------
(* Input tables *)

Meta1 ==
    [IDEtapa |-> "E1", NoEtapa |-> "1", Pais |-> "AR", EstadoColumnaGOP |-> "Vigente",
     Alias |-> "A1", Sector |-> "Agua", SubSector |-> "Riego"]

Meta2 ==
    [IDEtapa |-> "E2", NoEtapa |-> "2", Pais |-> "BO", EstadoColumnaGOP |-> "Cerrado",
     Alias |-> "A2", Sector |-> "Vial", SubSector |-> "Puentes"]

Metas == {Meta1, Meta2}

MkRow(m, d) ==
    [IDEtapa |-> m.IDEtapa, NoEtapa |-> m.NoEtapa, Pais |-> m.Pais,
     EstadoColumnaGOP |-> m.EstadoColumnaGOP, Alias |-> m.Alias,
     Sector |-> m.Sector, SubSector |-> m.SubSector,
     dates |-> d, kpi |-> NoKpi]

\* Raw values of the single-row tables.  Every column draws from five
\* day/month/year dates (a day, three months on, a year and more on, an earlier
\* day-of-month, the 31st of a month) and the empty cell; the approval and effectiveness
\* columns also from two texts only the lenient parse reads (04/13/2020 and
\* 2020-04-10) and a text that is no date.
PlainCells ==
    { Slash(10, 1, 2020), Slash(31, 1, 2020), Slash(10, 4, 2020), Slash(5, 4, 2021),
      Slash(10, 4, 2021), Empty }

OddCells == { Slash(4, 13, 2020), Iso(2020, 4, 10), Text }

RichCells(col) ==
    IF col \in {"FechaAprobacion", "FechaVigencia"}
    THEN PlainCells \cup OddCells
    ELSE PlainCells

RichDates ==
    {f \in [DateCols -> PlainCells \cup OddCells] : \A c \in DateCols : f[c] \in RichCells(c)}

\* Raw values of the tables of several rows, column by column.
SmallCells(col) ==
    CASE col = "Fecha CartaConsulta" -> {Slash(10, 1, 2020)}
      [] col = "FechaAprobacion" -> {Slash(10, 4, 2020), Slash(5, 4, 2021)}
      [] col = "FechaVigencia" -> {Slash(10, 4, 2021), Empty}
      [] col = "FechaElegibilidad" -> {Slash(10, 4, 2021)}
      [] col = "FechadePrimerDesembolso" -> {Slash(10, 6, 2022)}

SmallRows ==
    {MkRow(m, d) : m \in Metas,
                   d \in {f \in [DateCols -> UNION {SmallCells(c) : c \in DateCols}] :
                            \A c \in DateCols : f[c] \in SmallCells(c)}}

SmallTables == UNION {[1..n -> SmallRows] : n \in 1..MaxRows}

\* t with a copy of row x put in front of position j.
InsertAt(t, j, x) ==
    [p \in 1..(Len(t) + 1) |-> IF p < j THEN t[p] ELSE IF p = j THEN x ELSE t[p - 1]]

\* t without the row at position j.
RemoveAt(t, j) ==
    [p \in 1..(Len(t) - 1) |-> IF p < j THEN t[p] ELSE t[p + 1]]

AllColumns == id_vars \cup DateCols

\* A table without the date columns outside S.
WithoutColumns(t, S) ==
    [columns |-> id_vars \cup S,
     rows |-> [i \in 1..Len(t) |->
                 [t[i] EXCEPT !.dates = [c \in DateCols |-> IF c \in S THEN @[c] ELSE NoCell]]]]

\* The tables the URL may serve: one row of any raw values; up to MaxRows rows;
\* such a table with one of its rows copied to any position; one row of a table
\* that lacks some of the date columns.
IsInput(t) ==
    \/ \E d \in RichDates : t = [columns |-> AllColumns, rows |-> << MkRow(Meta1, d) >>]
    \/ \E u \in SmallTables : t = [columns |-> AllColumns, rows |-> u]
    \/ \E u \in SmallTables : \E i \in 1..Len(u) : \E j \in 1..(Len(u) + 1) :
          t = [columns |-> AllColumns, rows |-> InsertAt(u, j, u[i])]
    \/ \E r \in SmallRows : \E S \in (SUBSET DateCols) \ {DateCols} :
          t = WithoutColumns(<< r >>, S)

-----------------------------------------------------------------------------
(* The program *)

VARIABLES
    raw,     \* the table the URL serves
    data,    \* main's table object, changed in place by calculate_kpis
    wide,    \* transform_data's deduplicated copy, as of its last call
    shown,   \* the tables st.write has displayed, one per completed run
    pc,      \* where main is
    run      \* number of the pipeline run in progress

vars == << raw, data, wide, shown, pc, run >>

NoTable == [columns |-> {}, rows |-> << >>]

Init ==
    /\ IsInput(raw)
    /\ data = NoTable
    /\ wide = NoTable
    /\ shown = << >>
    /\ pc = "start"
    /\ run = 1

\* load_data_from_url succeeds: pd.read_csv returns the table.
LoadData ==
    /\ pc = "start"
    /\ data' = raw
    /\ pc' = "loaded"
    /\ UNCHANGED << raw, wide, shown, run >>

\* load_data_from_url fails: it returns None and main does nothing more.
LoadFails ==
    /\ pc = "start"
    /\ pc' = "load_failed"
    /\ UNCHANGED << raw, data, wide, shown, run >>

\* data = calculate_kpis(data); an exception leaves main.
CalculateKpis ==
    /\ pc = "loaded"
    /\ LET r == calculate_kpis(data)
       IN  /\ data' = r.df
           /\ pc' = IF r.raised THEN "error" ELSE "kpis"
    /\ UNCHANGED << raw, wide, shown, run >>

\* data_long_format = transform_data(data); st.write(data_long_format).
TransformData ==
    /\ pc = "kpis"
    /\ LET r == transform_data(data)
       IN  /\ wide' = r.wide
           /\ shown' = IF r.raised THEN shown ELSE Append(shown, r.out)
           /\ pc' = IF r.raised THEN "error" ELSE "done"
    /\ UNCHANGED << raw, data, run >>

\* The script runs again (a click on the button): main starts over and loads
\* the table anew.
Rerun ==
    /\ pc = "done"
    /\ run < MaxRuns
    /\ run' = run + 1
    /\ pc' = "start"
    /\ UNCHANGED << raw, data, wide, shown >>

\* The pipeline is called again on the table object the last run left.
RunAgainInPlace ==
    /\ pc = "done"
    /\ run < MaxRuns
    /\ run' = run + 1
    /\ pc' = "loaded"
    /\ UNCHANGED << raw, data, wide, shown >>

Next ==
    \/ LoadData
    \/ LoadFails
    \/ CalculateKpis
    \/ TransformData
    \/ Rerun
    \/ RunAgainInPlace

Spec == Init /\ [][Next]_vars

-----------------------------------------------------------------------------
(* Vocabulary of the properties *)

Range(q) == {q[i] : i \in 1..Len(q)}

\* The table the last completed run displayed.
Out == shown[Len(shown)]

\* The deduplicated row a melted row was built from: pd.melt numbers the
\* melted rows 0 .. 4n-1, KPI column after KPI column.
SrcPos(o) == (o.idx % Len(wide.rows)) + 1
SrcRow(o) == wide.rows[SrcPos(o)]

\* The observations displayed for deduplicated row r and KPI column k.
ObsOf(r, k) == {o \in Range(Out) : SrcPos(o) = r /\ o.Estaciones = k}

LaterOf(row, k) == row.dates[LaterCol(k)]
EarlierOf(row, k) == row.dates[EarlierCol(k)]
BothPresent(row, k) == IsTimestamp(LaterOf(row, k)) /\ IsTimestamp(EarlierOf(row, k))

\* An observation as its ten output columns, without the table index.
Columns(o) ==
    << o.IDEtapa, o.Estaciones, o.KPI, o.Anio, o.NoEtapa, o.Pais,
       o.EstadoColumnaGOP, o.Alias, o.Sector, o.SubSector >>

ObsSet(q) == {Columns(q[i]) : i \in 1..Len(q)}

Count(q, x) == Cardinality({i \in 1..Len(q) : Columns(q[i]) = x})

SameBag(p, q) == \A x \in ObsSet(p) \cup ObsSet(q) : Count(p, x) = Count(q, x)

\* What one run of the pipeline displays for a table of the given rows.
PipelineOut(rows) ==
    transform_data(calculate_kpis([columns |-> raw.columns, rows |-> rows]).df).out

LacksDateColumn == DateCols \ raw.columns # {}

\* Elapsed whole calendar months from earlier to later, as the specification
\* words it: 12 * years + months, one less when the day-of-month is earlier.
WholeMonths(later, earlier) ==
    12 * (later.f1 - earlier.f1) + (later.f2 - earlier.f2)
      - (IF later.f3 < earlier.f3 THEN 1 ELSE 0)

\* A raw value the fixed day/month/year layout rejects and the lenient parse reads.
LenientOnly(c) == ~IsTimestamp(to_datetime_format(c)) /\ IsTimestamp(to_datetime(c))

-----------------------------------------------------------------------------
(* Properties *)

\* C1: every displayed observation carries the calendar year of its KPI's
\* later milestone date on the row it was derived from.
YearOfOwnRow ==
    pc = "done" =>
        \A o \in Range(Out) : o.Anio = dt_year(LaterOf(SrcRow(o), o.Estaciones))

\* C2: when both endpoint dates are present and in order, the KPI value is the
\* total number of elapsed whole calendar months, gaps of twelve months or more
\* counted in full.
KpiIsTotalWholeMonths ==
    pc = "done" =>
        \A r \in 1..Len(wide.rows) : \A k \in KpiCols :
            LET row == wide.rows[r]
            IN  (BothPresent(row, k) /\ ~TsBefore(LaterOf(row, k), EarlierOf(row, k)))
                  => row.kpi[k] = Some(WholeMonths(LaterOf(row, k), EarlierOf(row, k)))

\* C3: a transition whose later milestone strictly precedes its earlier one
\* yields no observation.
ReversedDatesDropped ==
    pc = "done" =>
        \A r \in 1..Len(wide.rows) : \A k \in KpiCols :
            LET row == wide.rows[r]
            IN  (BothPresent(row, k) /\ TsBefore(LaterOf(row, k), EarlierOf(row, k)))
                  => ObsOf(r, k) = {}

\* C4: every observation of every displayed table has a KPI value that is
\* present and at least 0.
KpiPresentAndNonNegative ==
    \A i \in 1..Len(shown) : \A o \in Range(shown[i]) :
        IsSome(o.KPI) /\ Val(o.KPI) >= 0

WitnessFiltered ==
    /\ pc = "done"
    /\ Out # << >>
    /\ \E r \in 1..Len(wide.rows) : \E k1, k2 \in KpiCols :
          /\ wide.rows[r].kpi[k1] = None
          /\ IsSome(wide.rows[r].kpi[k2]) /\ Val(wide.rows[r].kpi[k2]) < 0

\* C5: a transition yields an observation only if both its endpoint dates are
\* present on the row, and it does yield one whenever both are present and in
\* order, whatever the other dates of the row are.
AbsentDateSuppression ==
    pc = "done" =>
        \A r \in 1..Len(wide.rows) : \A k \in KpiCols :
            LET row == wide.rows[r]
            IN  /\ ObsOf(r, k) # {} => BothPresent(row, k)
                /\ (BothPresent(row, k) /\ ~TsBefore(LaterOf(row, k), EarlierOf(row, k)))
                     => ObsOf(r, k) # {}

WitnessAbsentApproval ==
    /\ pc = "done"
    /\ \E r \in 1..Len(wide.rows) :
          /\ ~IsTimestamp(wide.rows[r].dates["FechaAprobacion"])
          /\ IsTimestamp(wide.rows[r].dates["Fecha CartaConsulta"])
          /\ ObsOf(r, "KPI Aprobacion") = {}
          /\ ObsOf(r, "KPI Vigencia") = {}
          /\ ObsOf(r, "KPI Elegibilidad") # {}
          /\ ObsOf(r, "KPI Primer Desembolso") # {}

\* C6: a table in which a row occurs twice displays the same observations, with
\* the same multiplicity, as the table with a single copy of that row,
\* whichever of the two copies is the one left out.
DuplicateCollapse ==
    (pc = "done" /\ run = 1) =>
        \A i, j \in 1..Len(raw.rows) :
            (i < j /\ raw.rows[i] = raw.rows[j])
              => /\ SameBag(Out, PipelineOut(RemoveAt(raw.rows, i)))
                 /\ SameBag(Out, PipelineOut(RemoveAt(raw.rows, j)))

\* C7: every later run on the same table, the table object of the first run
\* included, displays the same set of observations as the first run.
RerunIdempotent ==
    \A i \in 1..Len(shown) : ObsSet(shown[i]) = ObsSet(shown[1])

WitnessSecondRunInPlace ==
    /\ pc = "done"
    /\ run = 2
    /\ Len(shown) = 2
    /\ shown[2] # << >>
    /\ KpiCols \subseteq data.columns

\* C8: a table that lacks one of the five date columns stops the pipeline with
\* an error and displays nothing; a table that has them all never raises,
\* whatever its date values are.
SchemaErrorOnly ==
    /\ LacksDateColumn => (shown = << >> /\ pc \in {"start", "load_failed", "loaded", "error"})
    /\ pc = "error" => LacksDateColumn

WitnessSchemaError ==
    /\ pc = "error"
    /\ LacksDateColumn
    /\ shown = << >>

\* C9: a raw date value the fixed layout rejects and the lenient parse reads
\* ends up as that date in the pipeline's table, and its row is kept.
LenientFallback ==
    pc = "done" =>
        \A i \in 1..Len(raw.rows) : \A c \in DateCols :
            LenientOnly(raw.rows[i].dates[c])
              => \E r \in 1..Len(wide.rows) :
                    /\ MetaOf(wide.rows[r]) = MetaOf(raw.rows[i])
                    /\ wide.rows[r].dates[c] = to_datetime(raw.rows[i].dates[c])

\* C10: the deduplicated rows are pairwise different, each yields at most one
\* observation per KPI name (so at most four), and every observation carries
\* the seven metadata values of the row it was derived from.
AtMostFourWithOwnMetadata ==
    pc = "done" =>
        /\ \A r1, r2 \in 1..Len(wide.rows) : wide.rows[r1] = wide.rows[r2] => r1 = r2
        /\ \A r \in 1..Len(wide.rows) :
              /\ \A k \in KpiCols : Cardinality(ObsOf(r, k)) <= 1
              /\ Cardinality({o \in Range(Out) : SrcPos(o) = r}) <= Len(value_vars)
        /\ \A o \in Range(Out) :
              /\ o.Estaciones \in KpiCols
              /\ [f \in id_vars |-> o[f]] = MetaOf(SrcRow(o))

WitnessTwoRowsFourEach ==
    /\ pc = "done"
    /\ Len(raw.rows) > Len(wide.rows)
    /\ \E r1, r2 \in 1..Len(wide.rows) :
          /\ MetaOf(wide.rows[r1]) # MetaOf(wide.rows[r2])
          /\ Cardinality({o \in Range(Out) : SrcPos(o) = r1}) = 4
          /\ Cardinality({o \in Range(Out) : SrcPos(o) = r2}) >= 1

====
